---- MODULE Spec2Model ----
(***************************************************************************)
(* Model of src/src/object_recognizer_node.cpp: the ObjDetector node.      *)
(* main() constructs the detector from a calibration image and then loops  *)
(* spinOnce(); detect(); sleep().  The subscription callbacks store the    *)
(* last image / map message, detect() hands a pending image to             *)
(* find_object() and clears both slots.                                    *)
(*                                                                         *)
(* Images are abstracted to what the control flow depends on: whether they *)
(* decode, how many keypoints they yield and the distances of the matches. *)
(* A vector of keypoints / a descriptor matrix is its length.              *)
(***************************************************************************)
EXTENDS Integers, Sequences, FiniteSets, TLC

\* ---- bounds -------------------------------------------------------------
MaxFrames == 3      \* messages (image or map) delivered during a run
MaxKp == 4          \* keypoints a detector returns for one image
MaxDim == 2         \* width / height of the calibration image
MaxMatches == 5     \* length of the match vectors fed to the filter alone

\* ---- program constants --------------------------------------------------
Null == 0                   \* nullptr
MinDistInit == 100          \* double min_dist = 100
MaxDistInit == 0            \* double max_dist = 0
Ratio == 3                  \* 3*min_dist
MinHomographyPoints == 4    \* cv::findHomography needs 4 correspondences

\* distances of the matches produced inside a run of the node
MainDist == {0, 1, 5}
\* distances of the match vectors fed to the filter alone
FilterDist == {0, 1, 2, 3, 10, 50, 150, 400}

VARIABLES
    pc,                 \* position of the single thread of main()
    argc,               \* main's argc
    obj_img,            \* calibration image: [cols, rows, empty]
    obj_keypoints,      \* number of reference keypoints
    obj_descriptors,    \* number of reference descriptor rows
    lastImageFrame,     \* Null or the id of the pending image message
    lastMapFrame,       \* Null or the id of the pending map message
    msg, mapMsg,        \* arguments of the running find_object
    img_keypoints,      \* number of keypoints of the frame
    matches,            \* sequence of [queryIdx, distance]
    min_dist, max_dist,
    good_matches,
    homography,         \* "unset", "H" or "exception"
    solverCalled,       \* cv::findHomography was called in this invocation
    drawn,              \* the four boundary lines were drawn
    obj_corners,        \* the boundary quadrilateral used, <<>> if none
    outcome,            \* result of the last find_object invocation
    arrivals,           \* number of messages delivered so far
    interval,           \* image frames delivered since the last tick
    superseded,         \* image frames followed by another one in their interval
    passed              \* image frames handed to find_object, in order

ref == <<obj_img, obj_keypoints, obj_descriptors>>
slots == <<lastImageFrame, lastMapFrame>>
locals == <<msg, mapMsg, img_keypoints, matches, min_dist, max_dist,
            good_matches, homography, solverCalled, drawn, obj_corners>>
hist == <<arrivals, interval, superseded, passed>>
vars == <<pc, argc, obj_img, obj_keypoints, obj_descriptors, lastImageFrame,
          lastMapFrame, msg, mapMsg, img_keypoints, matches, min_dist,
          max_dist, good_matches, homography, solverCalled, drawn,
          obj_corners, outcome, arrivals, interval, superseded, passed>>

Range(s) == {s[i] : i \in 1..Len(s)}

\* ---- the match filter (find_object, lines 91-110) -----------------------
RECURSIVE MinLoop(_, _, _)
MinLoop(ms, i, m) ==
    IF i > Len(ms) THEN m
    ELSE MinLoop(ms, i + 1, IF ms[i].distance < m THEN ms[i].distance ELSE m)

RECURSIVE MaxLoop(_, _, _)
MaxLoop(ms, i, m) ==
    IF i > Len(ms) THEN m
    ELSE MaxLoop(ms, i + 1, IF ms[i].distance > m THEN ms[i].distance ELSE m)

MinDistOf(ms) == MinLoop(ms, 1, MinDistInit)
MaxDistOf(ms) == MaxLoop(ms, 1, MaxDistInit)

GoodMatchesLe(ms, md) == SelectSeq(ms, LAMBDA m : m.distance <= Ratio * md)
GoodMatches(ms, md) == SelectSeq(ms, LAMBDA m : m.distance < Ratio * md)

\* matcher->match gives one DMatch per query descriptor, queryIdx = row
MkMatches(ds) == [i \in 1..Len(ds) |-> [queryIdx |-> i - 1, distance |-> ds[i]]]

SeqsUpTo(S, n) == UNION {[1..k -> S] : k \in 0..n}

\* ---- the geometry step (find_object, lines 122-144) ---------------------
Quad(img) == << <<0, 0>>, <<img.cols, 0>>, <<img.cols, img.rows>>, <<0, img.rows>> >>

\* cv::findHomography: rejects fewer than four correspondences, otherwise
\* either returns a matrix or raises (fit)
FindHomography(n, fit) == IF n < MinHomographyPoints THEN "exception" ELSE fit

TryHomographyDrawAlways(n, fit, img) ==
    LET h == FindHomography(n, fit) IN
    [called |-> TRUE, homography |-> h, corners |-> Quad(img), drawn |-> TRUE,
     outcome |-> IF h = "H" THEN "Found" ELSE "NotFound"]
TryHomographyRethrow(n, fit, img) ==
    LET h == FindHomography(n, fit) IN
    IF h = "H"
    THEN [called |-> TRUE, homography |-> h, corners |-> Quad(img),
          drawn |-> TRUE, outcome |-> "Found"]
    ELSE [called |-> TRUE, homography |-> h, corners |-> <<>>,
          drawn |-> FALSE, outcome |-> "Throw"]
TryHomography(n, fit, img) ==
    LET h == FindHomography(n, fit) IN
    IF h = "H"
    THEN [called |-> TRUE, homography |-> h, corners |-> Quad(img),
          drawn |-> TRUE, outcome |-> "Found"]
    ELSE [called |-> TRUE, homography |-> h, corners |-> <<>>,
          drawn |-> FALSE, outcome |-> "NotFound"]

\* ---- initial state -------------------------------------------------------
LocalsInit ==
    /\ msg = Null /\ mapMsg = Null
    /\ img_keypoints = 0
    /\ matches = <<>>
    /\ min_dist = MinDistInit /\ max_dist = MaxDistInit
    /\ good_matches = <<>>
    /\ homography = "unset"
    /\ solverCalled = FALSE /\ drawn = FALSE
    /\ obj_corners = <<>>

LocalsReset ==
    /\ msg' = Null /\ mapMsg' = Null
    /\ img_keypoints' = 0
    /\ matches' = <<>>
    /\ min_dist' = MinDistInit /\ max_dist' = MaxDistInit
    /\ good_matches' = <<>>
    /\ homography' = "unset"
    /\ solverCalled' = FALSE /\ drawn' = FALSE
    /\ obj_corners' = <<>>

Init ==
    /\ pc = "main"
    /\ argc \in {1, 2}
    /\ obj_img = [cols |-> 0, rows |-> 0, empty |-> TRUE]
    /\ obj_keypoints = 0 /\ obj_descriptors = 0
    /\ lastImageFrame = Null /\ lastMapFrame = Null
    /\ LocalsInit
    /\ outcome = "None"
    /\ arrivals = 0 /\ interval = <<>> /\ superseded = {} /\ passed = <<>>

\* ---- main ---------------------------------------------------------------
\* if(argc < 2) return -1
main_missing_args ==
    /\ pc = "main" /\ argc < 2
    /\ pc' = "returned"
    /\ UNCHANGED <<argc, ref, slots, locals, outcome, hist>>

\* ObjDetector detector(nh, argv[1]): imread gives an empty matrix for a file
\* it cannot decode; detect and compute run on whatever imread returned
Constructor ==
    /\ pc = "main" /\ argc >= 2
    /\ \E decoded \in BOOLEAN, c \in 1..MaxDim, r \in 1..MaxDim, k \in 0..MaxKp :
          /\ obj_img' = IF decoded THEN [cols |-> c, rows |-> r, empty |-> FALSE]
                        ELSE [cols |-> 0, rows |-> 0, empty |-> TRUE]
          /\ obj_keypoints' = IF decoded THEN k ELSE 0
          /\ obj_descriptors' = IF decoded THEN k ELSE 0
    /\ lastImageFrame' = Null /\ lastMapFrame' = Null
    /\ pc' = "while"
    /\ UNCHANGED <<argc, locals, outcome, hist>>

\* while(ros::ok())
while_ok ==
    /\ pc = "while"
    /\ pc' = "spinOnce"
    /\ UNCHANGED <<argc, ref, slots, locals, outcome, hist>>

while_shutdown ==
    /\ pc = "while"
    /\ pc' = "returned"
    /\ UNCHANGED <<argc, ref, slots, locals, outcome, hist>>

\* ---- callbacks, run by ros::spinOnce() in the thread of main ------------
process_image_frame_keep_first(f) ==
    /\ pc = "spinOnce"
    /\ arrivals < MaxFrames /\ f = arrivals + 1
    /\ lastImageFrame' = IF lastImageFrame = Null THEN f ELSE lastImageFrame
    /\ arrivals' = f
    /\ interval' = Append(interval, f)
    /\ superseded' = superseded \cup Range(interval)
    /\ UNCHANGED <<pc, argc, ref, lastMapFrame, locals, outcome, passed>>
process_image_frame_any_time(f) ==
    /\ pc \in {"spinOnce", "find_object", "clear"}
    /\ arrivals < MaxFrames /\ f = arrivals + 1
    /\ lastImageFrame' = f
    /\ arrivals' = f
    /\ interval' = Append(interval, f)
    /\ superseded' = superseded \cup Range(interval)
    /\ UNCHANGED <<pc, argc, ref, lastMapFrame, locals, outcome, passed>>
process_image_frame(f) ==
    /\ pc = "spinOnce"
    /\ arrivals < MaxFrames /\ f = arrivals + 1
    /\ lastImageFrame' = f
    /\ arrivals' = f
    /\ interval' = Append(interval, f)
    /\ superseded' = superseded \cup Range(interval)
    /\ UNCHANGED <<pc, argc, ref, lastMapFrame, locals, outcome, passed>>

process_map_frame(f) ==
    /\ pc = "spinOnce"
    /\ arrivals < MaxFrames /\ f = arrivals + 1
    /\ lastMapFrame' = f
    /\ arrivals' = f
    /\ UNCHANGED <<pc, argc, ref, lastImageFrame, locals, outcome,
                   interval, superseded, passed>>

spinOnce_return ==
    /\ pc = "spinOnce"
    /\ pc' = "detect"
    /\ UNCHANGED <<argc, ref, slots, locals, outcome, hist>>

\* ---- detect() -----------------------------------------------------------
\* if(lastImageFrame) is false: nothing happens
detect_skip ==
    /\ pc = "detect" /\ lastImageFrame = Null
    /\ pc' = "sleep"
    /\ interval' = <<>>
    /\ UNCHANGED <<argc, ref, slots, locals, outcome, arrivals, superseded, passed>>

\* if(lastImageFrame) is true: find_object(lastImageFrame, lastMapFrame) is entered
detect_call_or_map ==
    /\ pc = "detect" /\ (lastImageFrame # Null \/ lastMapFrame # Null)
    /\ msg' = lastImageFrame /\ mapMsg' = lastMapFrame
    /\ passed' = Append(passed, lastImageFrame)
    /\ pc' = "find_object"
    /\ UNCHANGED <<argc, ref, slots, img_keypoints, matches, min_dist, max_dist,
                   good_matches, homography, solverCalled, drawn, obj_corners,
                   outcome, arrivals, interval, superseded>>
detect_call ==
    /\ pc = "detect" /\ lastImageFrame # Null
    /\ msg' = lastImageFrame /\ mapMsg' = lastMapFrame
    /\ passed' = Append(passed, lastImageFrame)
    /\ pc' = "find_object"
    /\ UNCHANGED <<argc, ref, slots, img_keypoints, matches, min_dist, max_dist,
                   good_matches, homography, solverCalled, drawn, obj_corners,
                   outcome, arrivals, interval, superseded>>

\* the body of find_object, apart from what it does to the reference model
find_object_core ==
    /\ pc = "find_object"
    /\ \E decodable \in BOOLEAN, stageFault \in BOOLEAN, kp \in 0..MaxKp,
          ds \in SeqsUpTo(MainDist, MaxKp), fit \in {"H", "exception"} :
          \* matcher->match: one match per reference descriptor, none when
          \* either side has no descriptors
          /\ Len(ds) = IF kp = 0 THEN 0 ELSE obj_descriptors
          /\ IF ~decodable
             THEN \* toCvCopy throws cv_bridge::Exception: exit(-1)
                  /\ pc' = "exited"
                  /\ outcome' = "Exit"
                  /\ UNCHANGED <<img_keypoints, matches, min_dist, max_dist,
                                 good_matches, homography, solverCalled, drawn,
                                 obj_corners>>
             ELSE IF stageFault
             THEN \* cvtColor / detect / compute / match raise outside any try
                  /\ pc' = "terminated"
                  /\ outcome' = "Throw"
                  /\ UNCHANGED <<img_keypoints, matches, min_dist, max_dist,
                                 good_matches, homography, solverCalled, drawn,
                                 obj_corners>>
             ELSE LET ms == MkMatches(ds)
                      md == MinDistOf(ms)
                      gm == GoodMatches(ms, md)
                      r  == TryHomography(Len(gm), fit, obj_img)
                  IN  /\ img_keypoints' = kp
                      /\ matches' = ms
                      /\ min_dist' = md
                      /\ max_dist' = MaxDistOf(ms)
                      /\ good_matches' = gm
                      /\ homography' = r.homography
                      /\ solverCalled' = r.called
                      /\ drawn' = r.drawn
                      /\ obj_corners' = r.corners
                      /\ outcome' = r.outcome
                      /\ pc' = IF r.outcome = "Throw" THEN "terminated" ELSE "clear"
    /\ UNCHANGED <<argc, slots, msg, mapMsg, hist>>

find_object_detects_into_reference ==
    /\ find_object_core
    /\ obj_keypoints' = IF pc' = "clear" THEN img_keypoints' ELSE obj_keypoints
    /\ UNCHANGED <<obj_img, obj_descriptors>>
find_object_run ==
    /\ find_object_core
    /\ UNCHANGED ref

\* lastImageFrame = nullptr; lastMapFrame = nullptr; and detect returns
detect_clear_keeps_image ==
    /\ pc = "clear"
    /\ lastMapFrame' = Null
    /\ LocalsReset
    /\ interval' = <<>>
    /\ pc' = "sleep"
    /\ UNCHANGED <<argc, ref, lastImageFrame, outcome, arrivals, superseded, passed>>
detect_clear ==
    /\ pc = "clear"
    /\ lastImageFrame' = Null
    /\ lastMapFrame' = Null
    /\ LocalsReset
    /\ interval' = <<>>
    /\ pc' = "sleep"
    /\ UNCHANGED <<argc, ref, outcome, arrivals, superseded, passed>>

\* sampleRate.sleep()
sleep_return ==
    /\ pc = "sleep"
    /\ pc' = "while"
    /\ UNCHANGED <<argc, ref, slots, locals, outcome, hist>>

Next ==
    \/ main_missing_args
    \/ Constructor
    \/ while_ok
    \/ while_shutdown
    \/ \E f \in 1..MaxFrames : process_image_frame(f)
    \/ \E f \in 1..MaxFrames : process_map_frame(f)
    \/ spinOnce_return
    \/ detect_skip
    \/ detect_call
    \/ find_object_run
    \/ detect_clear
    \/ sleep_return

Spec == Init /\ [][Next]_vars

\* ---- the match filter on its own ----------------------------------------
InitFilter ==
    /\ pc = "filter_in"
    /\ argc = 2
    /\ obj_img = [cols |-> 0, rows |-> 0, empty |-> TRUE]
    /\ obj_keypoints = 0 /\ obj_descriptors = 0
    /\ lastImageFrame = Null /\ lastMapFrame = Null
    /\ msg = Null /\ mapMsg = Null
    /\ img_keypoints = 0
    /\ matches \in {MkMatches(ds) : ds \in SeqsUpTo(FilterDist, MaxMatches)}
    /\ min_dist = MinDistInit /\ max_dist = MaxDistInit
    /\ good_matches = <<>>
    /\ homography = "unset"
    /\ solverCalled = FALSE /\ drawn = FALSE
    /\ obj_corners = <<>>
    /\ outcome = "None"
    /\ arrivals = 0 /\ interval = <<>> /\ superseded = {} /\ passed = <<>>

\* lines 91-110 applied to the match vector
apply_filter ==
    /\ pc = "filter_in"
    /\ min_dist' = MinDistOf(matches)
    /\ max_dist' = MaxDistOf(matches)
    /\ good_matches' = GoodMatches(matches, MinDistOf(matches))
    /\ pc' = "filter_out"
    /\ UNCHANGED <<argc, ref, slots, msg, mapMsg, img_keypoints, matches,
                   homography, solverCalled, drawn, obj_corners, outcome, hist>>

NextFilter == apply_filter

SpecFilter == InitFilter /\ [][NextFilter]_vars

\* ---- properties -----------------------------------------------------------
LivePcs == {"while", "spinOnce", "detect", "find_object", "clear", "sleep"}

NoDup(s) == \A i, j \in 1..Len(s) : i # j => s[i] # s[j]

Distances(ms) == {ms[i].distance : i \in 1..Len(ms)}

\* the minimum distance over all matches, 0 for no matches
TrueMin(ms) ==
    IF ms = <<>> THEN 0
    ELSE CHOOSE d \in Distances(ms) : \A e \in Distances(ms) : d <= e

\* C1, as stated: once a tick that invoked find_object is over, the image
\* slot is empty, whatever the outcome of the invocation, a fatal failure
\* inside the pipeline included.
C1_SlotEmptyWhateverOutcome ==
    (pc \in {"sleep", "exited", "terminated"} /\ passed # <<>>)
        => lastImageFrame = Null

\* C1, as amended: when find_object returns to detect() (homography found or
\* not found) the image slot is empty when the tick is over; when the
\* invocation fails fatally the process ends with the slot still holding the
\* frame that was passed; in both cases no frame is passed to find_object
\* twice.
C1_SlotEmptyAfterReturn ==
    /\ pc = "sleep" => lastImageFrame = Null
    /\ pc \in {"exited", "terminated"} => (lastImageFrame = msg /\ msg # Null)
    /\ NoDup(passed)

C1_Witness ==
    pc = "sleep" /\ outcome = "NotFound" /\ passed # <<>> /\ arrivals = Len(passed)

\* C2: the frame handed to find_object at a tick is the last image frame
\* delivered since the previous tick, and a frame that was followed by
\* another one before the tick is never handed to find_object.
C2_LatestWins ==
    /\ pc \in {"find_object", "clear"}
          => (interval # <<>> /\ msg = interval[Len(interval)])
    /\ Range(passed) \cap superseded = {}

C2_Witness == pc = "find_object" /\ Len(interval) >= 2

\* C3: the image slot is empty after construction, and a tick that finds it
\* empty does not invoke find_object and leaves it empty, whether or not a
\* map frame is pending.
C3_EmptyTickNoOp ==
    [][/\ (pc = "main" /\ pc' = "while") => lastImageFrame' = Null
       /\ (pc = "detect" /\ lastImageFrame = Null)
             => (lastImageFrame' = Null /\ passed' = passed /\ pc' = "sleep")]_vars

C3_Witness ==
    pc = "sleep" /\ passed = <<>> /\ lastImageFrame = Null /\ lastMapFrame # Null

\* C4: min_dist is the minimum distance over all matches (0 for none) and the
\* good matches are exactly the matches with distance < 3 * min_dist, in
\* their original order, for all distance values.
C4_FilterCorrect ==
    pc = "filter_out" =>
        /\ min_dist = TrueMin(matches)
        /\ good_matches =
              SelectSeq(matches, LAMBDA m : m.distance < 3 * TrueMin(matches))

\* C5, as stated: with fewer than 4 good correspondences the invocation ends
\* NotFound without cv::findHomography being called, and nothing is drawn.
C5_SolverNotCalled ==
    (pc = "clear" /\ Len(good_matches) < 4)
        => (~solverCalled /\ outcome = "NotFound" /\ ~drawn)

\* C5, as amended: with fewer than 4 good correspondences cv::findHomography
\* is still called, raises, the exception is caught inside find_object, the
\* invocation ends NotFound and no boundary is projected or drawn.
C5_FewPointsNotFound ==
    (pc = "clear" /\ Len(good_matches) < 4)
        => /\ solverCalled
           /\ homography = "exception"
           /\ outcome = "NotFound"
           /\ ~drawn
           /\ obj_corners = <<>>

C5_Witness == pc = "clear" /\ Len(good_matches) = 3 /\ outcome = "NotFound"

\* C6, as stated: when every match is at distance 0 (and there is at least
\* one), the filter yields at least one good match.
C6_SelfMatchHasGoodMatch ==
    (pc = "filter_out" /\ matches # <<>> /\ Distances(matches) = {0})
        => Len(good_matches) >= 1

\* C6, as amended: when the smallest distance is 0 the threshold is 0 and,
\* the comparison being strict, the filter yields no good match at all; it
\* yields at least one good match when the smallest distance is positive and
\* at most 100.
C6_ZeroMinNoGoodMatch ==
    pc = "filter_out" =>
        /\ (matches # <<>> /\ TrueMin(matches) = 0) => good_matches = <<>>
        /\ (matches # <<>> /\ 0 < TrueMin(matches) /\ TrueMin(matches) <= 100)
              => Len(good_matches) >= 1

C6_Witness ==
    /\ pc = "filter_out" /\ Len(matches) >= 2
    /\ Distances(matches) = {0} /\ good_matches = <<>>

\* C7: the node never runs its tick loop with a reference model built from a
\* calibration image that could not be decoded.
C7_NoLoopOnUndecodableCalibration ==
    ~(pc \in LivePcs /\ obj_img.empty)

C9_TickAtomic ==
    [][/\ (lastImageFrame' # lastImageFrame /\ lastImageFrame' # Null)
             => pc = "spinOnce"
       /\ (lastMapFrame' # lastMapFrame /\ lastMapFrame' # Null)
             => pc = "spinOnce"
       /\ passed' # passed => (pc = "detect" /\ pc' = "find_object")
       /\ (lastImageFrame # Null /\ lastImageFrame' = Null)
             => (pc = "clear" /\ lastImageFrame = msg)]_vars

C9_Witness ==
    /\ pc = "clear" /\ msg # Null /\ lastImageFrame = msg
    /\ Len(interval) >= 2 /\ mapMsg # Null

\* C10: after construction no operation changes the reference model, and the
\* boundary quadrilateral of every invocation is (0,0),(W,0),(W,H),(0,H) of
\* the calibration image.
C10_ReferenceImmutable ==
    [][/\ pc # "main" => UNCHANGED <<obj_img, obj_keypoints, obj_descriptors>>
       /\ obj_corners' # <<>> => obj_corners' = Quad(obj_img)]_vars

C10_Witness ==
    /\ pc = "clear" /\ Len(passed) >= 2 /\ outcome = "NotFound"
    /\ obj_keypoints > 0 /\ img_keypoints # obj_keypoints

====
